---- MODULE Spec2Model ----
(***************************************************************************)
(* The gelataria CRUD web service of src/main.py: five HTTP handlers over  *)
(* one MongoDB collection.  The collection is a sequence of documents in   *)
(* natural (insertion) order; a document key is a typed value, an ObjectId *)
(* or a string, as in BSON.  Every handler but create awaits one store     *)
(* operation; create awaits two (insert_one, then find_one).               *)
(*                                                                         *)
(* A request arrives (req), its handler runs and produces a response       *)
(* (resp), and the response is delivered.  Spec serves requests one at a   *)
(* time; SpecConc lets other requests run between the two awaits of a      *)
(* create; SpecList starts from collections around the list limit.         *)
(***************************************************************************)
EXTENDS Integers, Sequences, FiniteSets, TLC

(* ---------------------------- bounds ----------------------------------- *)
\* number of insert_one calls explored
MaxCreates == 2
\* number of successful find_one_and_update calls explored
MaxUpdates == 1
\* largest number of non-null fields in an update body
MaxSet == 1
\* value of the first ObjectId the driver generates
FirstId == 9
\* how far above the list limit the pre-populated collections go
MaxOver == 1

(* ------------------------ program constants ---------------------------- *)
\* to_list(1000)
ListLimit == 1000
\* an ObjectId is 12 bytes, written as 24 hex characters
IdLen == 24

\* the seven required string fields of GelatariaModel
Fields == {"name", "logo", "facebook", "tiktok", "instagram", "form", "coupon"}
\* the example record of the schema, used as the complete create body
Example ==
    [name |-> "Test Gelataria", logo |-> "http://gelataria.com",
     facebook |-> "http://facebook.com", tiktok |-> "http://tiktok.com",
     instagram |-> "http://instagram.com", form |-> "http://form.com",
     coupon |-> "http://coupon.com"]
\* field values used in create bodies
Values == {Example[f] : f \in Fields}
\* field values used in update bodies
NewValues == {"B"}
\* Python's None, for an absent or null body field
None == "None"
\* the result of a find that matched nothing
NoDoc == [none |-> TRUE]

(* ------------------------- identifier codec ---------------------------- *)
LowerHex == <<"0", "1", "2", "3", "4", "5", "6", "7", "8", "9", "a", "b", "c", "d", "e", "f">>
UpperHex == <<"0", "1", "2", "3", "4", "5", "6", "7", "8", "9", "A", "B", "C", "D", "E", "F">>

\* the value of each hexadecimal character, either case
HexValue ==
    [c \in {LowerHex[i] : i \in 1..16} \cup {UpperHex[i] : i \in 1..16} |->
        (CHOOSE i \in 1..16 : LowerHex[i] = c \/ UpperHex[i] = c) - 1]

IsHexChar(c) == c \in DOMAIN HexValue

\* bson.ObjectId.is_valid for a str: 24 characters, all hexadecimal
IsValidId(s) == Len(s) = IdLen /\ \A i \in 1..Len(s) : IsHexChar(s[i])

\* the number written by the first i characters of s
RECURSIVE FromHexTo(_, _)
FromHexTo(s, i) ==
    IF i = 0 THEN 0 ELSE 16 * FromHexTo(s, i - 1) + HexValue[s[i]]

FromHex(s) == FromHexTo(s, Len(s))

RECURSIVE ToHex(_, _)
ToHex(n, len) ==
    IF len = 0 THEN <<>>
    ELSE Append(ToHex(n \div 16, len - 1), LowerHex[(n % 16) + 1])

\* the raw path string used as a key
StrKey(s) == [t |-> "str", v |-> s]

\* variant: the path string is used as the key without decoding
ObjectId_raw(s) == StrKey(s)

\* ObjectId(id): the typed key decoded from a well-formed string
ObjectId(s) == [t |-> "oid", v |-> FromHex(s)]

\* str(ObjectId): 24 lower-case hex characters
Str(key) == IF key.t = "oid" THEN ToHex(key.v, IdLen) ELSE key.v

ToUpper(s) ==
    [i \in 1..Len(s) |->
        IF IsHexChar(s[i]) THEN UpperHex[HexValue[s[i]] + 1] ELSE s[i]]

(* --------------------------- the collection ---------------------------- *)
\* the document insert_one stores: the dumped fields under a generated _id
MakeDoc(oid, fields) ==
    [k \in Fields \cup {"_id"} |-> IF k = "_id" THEN oid ELSE fields[k]]

SameKey(a, b) == a.t = b.t /\ a.v = b.v

\* position of the document with this _id, 0 if there is none
IndexOf(st, key) ==
    IF \E i \in 1..Len(st) : SameKey(st[i]["_id"], key)
    THEN CHOOSE i \in 1..Len(st) : SameKey(st[i]["_id"], key)
    ELSE 0

insert_one(st, oid, fields) == Append(st, MakeDoc(oid, fields))

find_one(st, key) ==
    LET i == IndexOf(st, key) IN IF i = 0 THEN NoDoc ELSE st[i]

\* variant: the document is replaced by the given fields, the others are lost
ApplySet_replace(doc, set) ==
    [k \in DOMAIN doc |->
        IF k \in DOMAIN set THEN set[k] ELSE IF k = "_id" THEN doc[k] ELSE None]

\* $set: the named fields take the given values, the others stay
ApplySet(doc, set) ==
    [k \in DOMAIN doc |-> IF k \in DOMAIN set THEN set[k] ELSE doc[k]]

\* variant: upsert=True, a missing document is inserted
find_one_and_update_upsert(st, key, set) ==
    IF IndexOf(st, key) = 0
    THEN Append(st, [k \in Fields \cup {"_id"} |->
                        IF k = "_id" THEN key ELSE IF k \in DOMAIN set THEN set[k] ELSE None])
    ELSE [st EXCEPT ![IndexOf(st, key)] = ApplySet(st[IndexOf(st, key)], set)]

\* the collection after find_one_and_update
find_one_and_update(st, key, set) ==
    LET i == IndexOf(st, key)
    IN  IF i = 0 THEN st ELSE [st EXCEPT ![i] = ApplySet(st[i], set)]

\* variant: the filter is ignored, the first document is removed
delete_one_first(st, key) == IF Len(st) = 0 THEN st ELSE Tail(st)

\* the collection after delete_one
delete_one(st, key) ==
    LET i == IndexOf(st, key)
    IN  IF i = 0 THEN st ELSE SubSeq(st, 1, i - 1) \o SubSeq(st, i + 1, Len(st))

Min(a, b) == IF a < b THEN a ELSE b

\* variant: the cursor is read to its end, the length is ignored
to_list_all(st, n) == st

to_list(st, n) == SubSeq(st, 1, Min(n, Len(st)))

(* ------------------------------ models --------------------------------- *)
\* variant: only the name is required
GelatariaModel_lax(body) == body.fields["name"] # None

\* GelatariaModel validation of a create body: every required field present
GelatariaModel(body) == \A f \in Fields : body.fields[f] # None

\* model_dump(by_alias=True, exclude=["id"]): the seven fields, never the id
model_dump(body) == body.fields

\* the non-null fields of an update body
NonNull(body) == {f \in Fields : body[f] # None}

\* the $set document built from an update body
UpdateSet(body) == [f \in NonNull(body) |-> body[f]]

\* response_model=GelatariaModel, by_alias=False: _id becomes the string id
Serialize(doc) ==
    [k \in Fields \cup {"id"} |-> IF k = "id" THEN Str(doc["_id"]) ELSE doc[k]]

GelatariaCollection(docs) ==
    [gelatarias |-> [i \in 1..Len(docs) |-> Serialize(docs[i])]]

(* ----------------------------- responses ------------------------------- *)
Response(op, status, body) == [op |-> op, status |-> status, body |-> body]

\* HTTPException(status_code=404, detail=f"... {id} not found")
NotFound(op, id) == Response(op, 404, [detail |-> id])
ServerError(op) == Response(op, 500, [text |-> "Internal Server Error"])
Unprocessable(op) == Response(op, 422, [errors |-> "field required"])
NoContent(op) == Response(op, 204, [empty |-> TRUE])

\* a handler's returned document through its response model: None fails
\* response validation
Respond(op, status, doc) ==
    IF doc = NoDoc THEN ServerError(op) ELSE Response(op, status, Serialize(doc))

(* ------------------------------ requests ------------------------------- *)
\* a well-formed id string for an ObjectId value
IdOf(n) == Str([t |-> "oid", v |-> n])

\* malformed path ids: 23 characters, and 24 with a non-hex one
BadIds ==
    { SubSeq(IdOf(FirstId), 2, IdLen),
      <<"g">> \o SubSeq(IdOf(FirstId), 2, IdLen) }

\* path ids of the requests: those of the first documents, one that is never
\* assigned, an upper-case spelling, and the malformed ones
IdStrings ==
    {IdOf(FirstId + i) : i \in 0..MaxCreates}
        \cup {ToUpper(IdOf(FirstId + 1))} \cup BadIds

Without(fields, g) == [f \in Fields |-> IF f = g THEN None ELSE fields[f]]

\* create bodies: complete, with or without a client-supplied id, or with
\* one required field missing
CreateBodies ==
    {[fields |-> Example, id |-> i] : i \in {<<>>, <<IdOf(FirstId)>>}}
        \cup {[fields |-> Without(Example, g), id |-> <<>>] : g \in Fields}

\* update bodies: every field optional, null or absent is None
UpdateBodies ==
    {b \in [Fields -> NewValues \cup {None}] : Cardinality(NonNull(b)) <= MaxSet}

\* update bodies that set at most the name
NameBodies == {b \in UpdateBodies : NonNull(b) \subseteq {"name"}}

NoReq == [op |-> "none"]

CreateRequests(bodies) == {[op |-> "create", body |-> b] : b \in bodies}
ShowRequests(ids) == {[op |-> "show", id |-> i] : i \in ids}
UpdateRequests(ids, bodies) == {[op |-> "update", id |-> i, body |-> b] : i \in ids, b \in bodies}
DeleteRequests(ids) == {[op |-> "delete", id |-> i] : i \in ids}
ListRequest == [op |-> "list"]

\* the requests clients send
Requests ==
    CreateRequests(CreateBodies) \cup {ListRequest} \cup ShowRequests(IdStrings)
        \cup UpdateRequests(IdStrings, UpdateBodies) \cup DeleteRequests(IdStrings)

\* the requests sent while a create may be between its two store calls
ConcRequests ==
    CreateRequests(CreateBodies) \cup {ListRequest} \cup ShowRequests(IdStrings)
        \cup UpdateRequests(IdStrings, NameBodies) \cup DeleteRequests(IdStrings)

\* the requests sent to the collections around the list limit
BulkRequests ==
    CreateRequests({[fields |-> Example, id |-> <<>>]}) \cup {ListRequest}
        \cup UpdateRequests({IdOf(FirstId + 1)}, NameBodies)
        \cup DeleteRequests({IdOf(FirstId), IdOf(FirstId + 1)})

(* ------------------------------- state --------------------------------- *)
VARIABLES
    store,      \* gelataria_collection: documents in natural order
    nextId,     \* value of the next ObjectId the driver generates
    req,        \* the request being served, NoReq between requests
    pending,    \* creates between their insert_one and their find_one
    resp,       \* the response on its way to the client, NoResp if none
    inserts,    \* number of insert_one calls so far
    updates,    \* number of documents modified so far
    returned,   \* ids returned by 201 responses, in order
    deleted,    \* keys removed by 204 responses
    fresh       \* records returned by create, not updated or deleted since

vars == <<store, nextId, req, pending, resp, inserts, updates, returned, deleted, fresh>>

\* no response on its way to the client
NoResp == Response("none", 0, [empty |-> TRUE])

\* the collection after n earlier creates of the same record
Populated(n) == [i \in 1..n |-> MakeDoc([t |-> "oid", v |-> FirstId + i - 1], Example)]

InitWith(n) ==
    /\ store = Populated(n)
    /\ nextId = FirstId + n
    /\ req = NoReq
    /\ pending = {}
    /\ resp = NoResp
    /\ inserts = 0
    /\ updates = 0
    /\ returned = <<>>
    /\ deleted = {}
    /\ fresh = {}

Init == InitWith(0)

\* requests that stay within the bounds on inserts and modifications
Admissible(r) ==
    /\ (r.op = "create" /\ GelatariaModel(r.body)) => inserts < MaxCreates
    /\ (r.op = "update" /\ NonNull(r.body) # {}) => updates < MaxUpdates

\* a request of the set rs arrives, the previous response being delivered
Arrive(rs) ==
    /\ req = NoReq
    /\ resp = NoResp
    /\ \E r \in rs : Admissible(r) /\ req' = r
    /\ UNCHANGED <<store, nextId, pending, resp, inserts, updates, returned, deleted, fresh>>

\* the client receives the response
Deliver ==
    /\ resp # NoResp
    /\ resp' = NoResp
    /\ UNCHANGED <<store, nextId, req, pending, inserts, updates, returned, deleted, fresh>>

\* variant: the id is derived from the collection's size
NewObjectId_count(st, next) == [t |-> "oid", v |-> FirstId + Len(st)]

\* the ObjectId the driver generates for an insert without _id
NewObjectId(st, next) == [t |-> "oid", v |-> next]

\* history kept after a create response
Created(r) ==
    /\ returned' = IF r.status = 201 THEN Append(returned, r.body.id) ELSE returned
    /\ fresh' = IF r.status = 201 THEN fresh \cup {r.body} ELSE fresh

\* records of fresh that do not carry this key's id
Stale(key) == {r \in fresh : r.id # Str(key)}

(* ------------------------------ handlers ------------------------------- *)
\* POST /gelatarias/ with no other request between its two store calls
create_gelataria ==
    /\ req.op = "create"
    /\ req' = NoReq
    /\ IF ~GelatariaModel(req.body)
       THEN /\ resp' = Unprocessable("create")
            /\ UNCHANGED <<store, nextId, pending, inserts, updates, returned, deleted, fresh>>
       ELSE /\ LET oid == NewObjectId(store, nextId)
                   st1 == insert_one(store, oid, model_dump(req.body))
                   created_gelataria == find_one(st1, oid)
                   r == Respond("create", 201, created_gelataria)
               IN  /\ store' = st1
                   /\ resp' = r
                   /\ Created(r)
            /\ nextId' = nextId + 1
            /\ inserts' = inserts + 1
            /\ UNCHANGED <<pending, updates, deleted>>

\* POST /gelatarias/ up to its first await: validation and insert_one
create_gelataria_insert ==
    /\ req.op = "create"
    /\ req' = NoReq
    /\ IF ~GelatariaModel(req.body)
       THEN /\ resp' = Unprocessable("create")
            /\ UNCHANGED <<store, nextId, pending, inserts, updates, returned, deleted, fresh>>
       ELSE /\ LET oid == NewObjectId(store, nextId)
               IN  /\ store' = insert_one(store, oid, model_dump(req.body))
                   /\ pending' = pending \cup {oid}
            /\ nextId' = nextId + 1
            /\ inserts' = inserts + 1
            /\ UNCHANGED <<resp, updates, returned, deleted, fresh>>

\* POST /gelatarias/ from its second await: find_one by inserted_id, return
create_gelataria_find(oid) ==
    /\ oid \in pending
    /\ pending' = pending \ {oid}
    /\ LET created_gelataria == find_one(store, oid)
           r == Respond("create", 201, created_gelataria)
       IN  /\ resp' = r
           /\ Created(r)
    /\ UNCHANGED <<store, nextId, req, inserts, updates, deleted>>

\* GET /gelatarias/
list_gelatarias ==
    /\ req.op = "list"
    /\ req' = NoReq
    /\ resp' = Response("list", 200, GelatariaCollection(to_list(store, ListLimit)))
    /\ UNCHANGED <<store, nextId, pending, inserts, updates, returned, deleted, fresh>>

\* GET /gelatarias/{id}
show_gelataria ==
    /\ req.op = "show"
    /\ req' = NoReq
    /\ resp' =
         IF ~IsValidId(req.id) THEN ServerError("show")
         ELSE LET gelataria == find_one(store, ObjectId(req.id))
              IN  IF gelataria # NoDoc
                  THEN Response("show", 200, Serialize(gelataria))
                  ELSE NotFound("show", req.id)
    /\ UNCHANGED <<store, nextId, pending, inserts, updates, returned, deleted, fresh>>

\* PUT /gelatarias/{id}
update_gelataria ==
    /\ req.op = "update"
    /\ req' = NoReq
    /\ IF Cardinality(NonNull(req.body)) >= 1
       THEN IF ~IsValidId(req.id)
            THEN /\ resp' = ServerError("update")
                 /\ UNCHANGED <<store, nextId, pending, inserts, updates, returned, deleted, fresh>>
            ELSE LET key == ObjectId(req.id)
                     st1 == find_one_and_update(store, key, UpdateSet(req.body))
                     update_result == find_one(st1, key)
                 IN  IF update_result # NoDoc
                     THEN /\ store' = st1
                          /\ resp' = Response("update", 200, Serialize(update_result))
                          /\ updates' = updates + 1
                          /\ fresh' = Stale(key)
                          /\ UNCHANGED <<nextId, pending, inserts, returned, deleted>>
                     ELSE /\ store' = st1
                          /\ resp' = NotFound("update", req.id)
                          /\ UNCHANGED <<nextId, pending, inserts, updates, returned, deleted, fresh>>
       ELSE LET existing_gelataria == find_one(store, StrKey(req.id))
            IN  /\ resp' = IF existing_gelataria # NoDoc
                           THEN Response("update", 200, Serialize(existing_gelataria))
                           ELSE NotFound("update", req.id)
                /\ UNCHANGED <<store, nextId, pending, inserts, updates, returned, deleted, fresh>>

\* DELETE /gelatarias/{id}
delete_gelataria ==
    /\ req.op = "delete"
    /\ req' = NoReq
    /\ IF ~IsValidId(req.id)
       THEN /\ resp' = ServerError("delete")
            /\ UNCHANGED <<store, nextId, pending, inserts, updates, returned, deleted, fresh>>
       ELSE LET key == ObjectId(req.id)
                st1 == delete_one(store, key)
                deleted_count == Len(store) - Len(st1)
            IN  IF deleted_count = 1
                THEN /\ store' = st1
                     /\ resp' = NoContent("delete")
                     /\ deleted' = deleted \cup {key}
                     /\ fresh' = Stale(key)
                     /\ UNCHANGED <<nextId, pending, inserts, updates, returned>>
                ELSE /\ store' = st1
                     /\ resp' = NotFound("delete", req.id)
                     /\ UNCHANGED <<nextId, pending, inserts, updates, returned, deleted, fresh>>

(* --------------------------- specifications ---------------------------- *)
Request == Arrive(Requests)

\* requests served one at a time
Next ==
    \/ Request
    \/ Deliver
    \/ create_gelataria
    \/ list_gelatarias
    \/ show_gelataria
    \/ update_gelataria
    \/ delete_gelataria

Spec == Init /\ [][Next]_vars

RequestConc == Arrive(ConcRequests)
CreateFind == \E oid \in pending : create_gelataria_find(oid)

\* requests served concurrently: other requests run between create's awaits
NextConc ==
    \/ RequestConc
    \/ Deliver
    \/ create_gelataria_insert
    \/ CreateFind
    \/ list_gelatarias
    \/ show_gelataria
    \/ update_gelataria
    \/ delete_gelataria

SpecConc == Init /\ [][NextConc]_vars

\* sizes of the collection the service starts with, around the list limit
ListSizes == {0} \cup ((ListLimit - 1)..(ListLimit + MaxOver))

InitList == \E n \in ListSizes : InitWith(n)

RequestBulk == Arrive(BulkRequests)

\* the same handlers on collections around the list limit
NextList ==
    \/ RequestBulk
    \/ Deliver
    \/ create_gelataria
    \/ list_gelatarias
    \/ update_gelataria
    \/ delete_gelataria

SpecList == InitList /\ [][NextList]_vars

(* ------------------------------ properties ----------------------------- *)
Range(seq) == {seq[i] : i \in DOMAIN seq}

\* the path id of the request is 24 hexadecimal characters
WellFormed(id) == Len(id) = IdLen /\ \A i \in 1..Len(id) : IsHexChar(id[i])

\* position in the store of the document a well-formed path id names, or 0
Position(id) ==
    IF \E i \in 1..Len(store) : store[i]["_id"].v = FromHex(id)
    THEN CHOOSE i \in 1..Len(store) : store[i]["_id"].v = FromHex(id)
    ELSE 0

\* the request in flight is answered by this step
Answered(op) == req.op = op /\ req' = NoReq

\* C1: a create request with all seven required fields responds 201 with an
\* id that no earlier create returned, deleted records included, so the ids
\* returned by creates are pairwise distinct.
C1_CreateReturnsUnseenId ==
    [][(Answered("create") /\ \A f \in Fields : req.body.fields[f] \in Values) =>
          /\ resp'.op = "create"
          /\ resp'.status = 201
          /\ resp'.body.id \notin Range(returned)
          /\ returned' = Append(returned, resp'.body.id)
          /\ \A i, j \in DOMAIN returned' : i # j => returned'[i] # returned'[j]]_vars

\* a create has answered 201 after an earlier record was deleted
C1_Witness ==
    /\ resp.op = "create"
    /\ resp.status = 201
    /\ Len(returned) >= 2
    /\ deleted # {}
    /\ returned[Len(returned)] = resp.body.id

\* C2: an update of an existing record with a non-empty set S of non-null
\* fields sets the fields of S to the given values, leaves the other fields,
\* the identifier and every other record as they were, and responds 200 with
\* the record as it is after the update.
C2_PartialUpdate ==
    [][(/\ Answered("update")
        /\ \E f \in Fields : req.body[f] # None
        /\ WellFormed(req.id)
        /\ Position(req.id) # 0) =>
          LET p == Position(req.id)
          IN  /\ Len(store') = Len(store)
              /\ \A i \in 1..Len(store) : i # p => store'[i] = store[i]
              /\ store'[p]["_id"] = store[p]["_id"]
              /\ \A f \in Fields :
                    store'[p][f] = IF req.body[f] # None THEN req.body[f] ELSE store[p][f]
              /\ resp'.op = "update"
              /\ resp'.status = 200
              /\ resp'.body.id = ToHex(store[p]["_id"].v, IdLen)
              /\ \A f \in Fields : resp'.body[f] = store'[p][f]]_vars

\* an update has answered 200 for one of two records, which now has an
\* updated field next to fields with their created values
C2_Witness ==
    /\ resp.op = "update"
    /\ resp.status = 200
    /\ Len(store) >= 2
    /\ \E f, g \in Fields : resp.body[f] \in NewValues /\ resp.body[g] = Example[g]

\* C3: deleting an existing id responds 204 and removes exactly that record,
\* and every later get on a deleted id responds 404, whatever was requested
\* in between.
C3_DeleteThenGet404 ==
    [][/\ (Answered("delete") /\ WellFormed(req.id) /\ Position(req.id) # 0) =>
             LET p == Position(req.id)
             IN  /\ resp'.op = "delete"
                 /\ resp'.status = 204
                 /\ store' = [i \in 1..(Len(store) - 1) |->
                                 IF i < p THEN store[i] ELSE store[i + 1]]
       /\ (/\ Answered("show")
           /\ WellFormed(req.id)
           /\ \E k \in deleted : k.v = FromHex(req.id)) =>
             (resp'.op = "show" /\ resp'.status = 404)]_vars

\* a get has answered 404 for a deleted id after a later create
C3_Witness ==
    /\ resp.op = "show"
    /\ resp.status = 404
    /\ WellFormed(resp.body.detail)
    /\ \E k \in deleted :
          /\ k.v = FromHex(resp.body.detail)
          /\ \E i \in 1..Len(store) : store[i]["_id"].v > k.v

\* C4: a get by the id a create returned, with no update or delete of that
\* id in between, responds 200 with the record the create returned.
C4_CreateGetRoundTrip ==
    [][\A r \in fresh :
         (Answered("show") /\ req.id = r.id) =>
            /\ resp'.op = "show"
            /\ resp'.status = 200
            /\ resp'.body = r]_vars

\* a get has answered with a record a create returned, another record
\* having been updated or deleted in between
C4_Witness ==
    /\ resp.op = "show"
    /\ resp.status = 200
    /\ resp.body \in fresh
    /\ Len(returned) >= 2
    /\ Cardinality(fresh) = 1

\* C5: a get with a malformed id responds 404 and leaves the store unchanged.
C5_MalformedIdIs404 ==
    [][(Answered("show") /\ ~WellFormed(req.id)) =>
          /\ resp'.op = "show"
          /\ resp'.status = 404
          /\ store' = store]_vars

\* C6: an update of an existing record with an empty body responds 200 with
\* the existing record and leaves the store unchanged.
C6_EmptyUpdateReturnsRecord ==
    [][(/\ Answered("update")
        /\ \A f \in Fields : req.body[f] = None
        /\ WellFormed(req.id)
        /\ Position(req.id) # 0) =>
          /\ resp'.op = "update"
          /\ resp'.status = 200
          /\ resp'.body.id = ToHex(store[Position(req.id)]["_id"].v, IdLen)
          /\ \A f \in Fields : resp'.body[f] = store[Position(req.id)][f]
          /\ store' = store]_vars

\* C7: list responds 200 with the stored records, one entry per record with
\* its current values, when fewer than 1000 are stored, with at most 1000
\* entries when more are stored, and never changes the store.
C7_ListReturnsStore ==
    [][Answered("list") =>
         /\ resp'.op = "list"
         /\ resp'.status = 200
         /\ store' = store
         /\ Len(store) < ListLimit =>
               /\ Len(resp'.body.gelatarias) = Len(store)
               /\ \A i \in 1..Len(store) :
                     /\ resp'.body.gelatarias[i].id = ToHex(store[i]["_id"].v, IdLen)
                     /\ \A f \in Fields : resp'.body.gelatarias[i][f] = store[i][f]
         /\ Len(store) > ListLimit => Len(resp'.body.gelatarias) <= ListLimit]_vars

\* a list has answered for a collection of more records than the limit
C7_Witness ==
    /\ resp.op = "list"
    /\ Len(store) > ListLimit
    /\ Len(resp.body.gelatarias) = ListLimit

\* C8: a create whose body misses one of the seven required fields responds
\* 422 and no record is inserted.
C8_MissingFieldIs422 ==
    [][(Answered("create") /\ \E f \in Fields : req.body.fields[f] = None) =>
          /\ resp'.op = "create"
          /\ resp'.status = 422
          /\ store' = store]_vars

\* a create has answered 422 while records are stored
C8_Witness ==
    /\ resp.op = "create"
    /\ resp.status = 422
    /\ Len(store) >= 1

\* C9: a delete, and an update with a non-empty set of fields, on a
\* well-formed id that matches no stored record responds 404 and leaves the
\* store unchanged.
C9_AbsentIdIs404 ==
    [][(/\ Answered("delete") \/ (Answered("update") /\ \E f \in Fields : req.body[f] # None)
        /\ WellFormed(req.id)
        /\ Position(req.id) = 0) =>
          /\ resp'.op = req.op
          /\ resp'.status = 404
          /\ store' = store]_vars

\* a second delete of an id has answered 404
C9_Witness ==
    /\ resp.op = "delete"
    /\ resp.status = 404
    /\ WellFormed(resp.body.detail)
    /\ \E k \in deleted : k.v = FromHex(resp.body.detail)

\* C10: a create whose insert succeeded responds 201 with a record carrying
\* the assigned id, whatever other requests run between its insert and its
\* re-read.
C10_CreateAlways201 ==
    [][\A oid \in pending :
         oid \notin pending' =>
            /\ resp'.op = "create"
            /\ resp'.status = 201
            /\ resp'.body.id = Str(oid)]_vars

====
